---- MODULE Spec2Model ----
(***************************************************************************)
(* A model of commons-diff: commonsdiff.py (the diff of a baseline         *)
(* revision of a Commons file page against its current state) and          *)
(* process_changes_nordic_museum.py (the conversion of its JSON output to  *)
(* one row per change).                                                    *)
(*                                                                         *)
(* Python values are modelled as follows.                                  *)
(*   - an optional value (None or v) is the sequence <<>> or <<v>>;        *)
(*   - a str that the code trims is a sequence of characters;              *)
(*   - a dict is the sequence of its <<key, value>> pairs in key order;    *)
(*   - an instant is an integer number of ticks, a date d is the instant   *)
(*     d * DayLen (midnight of that day);                                  *)
(*   - the result of a function that may raise is a record                 *)
(*     [exc |-> name of the exception or "", val |-> returned value].      *)
(***************************************************************************)
EXTENDS Integers, Sequences, FiniteSets, TLC

VARIABLES
    config,            \* Config.config: the loaded JSON configuration
    cutoff,            \* arguments["cutoff"]: a date
    output_format,     \* main: "json" or "csv"
    wiki,              \* per input file (in input order): the state of the wiki
    idx,               \* main: position of the for loop over files
    history_dump,      \* main: the records collected so far
    pc,                \* main: "loop", "packaged", "saved" or "raised"
    exception,         \* the exception that ended the run ("" when none)
    packaged_results,  \* main: what package_results returned (optional)
    outfile,           \* the output file (optional: <<>> not written)
    requests,          \* the requests made to the wiki: <<file, kind>>
    content,           \* conversion: the "results" list of the source JSON
    pos,               \* conversion: position of the loop over records
    rows,              \* conversion: the rows written after the header
    WIKIDATA_CACHE,    \* conversion: the module-level label cache
    wikidata,          \* conversion: the labels of the items on Wikidata
    lookups,           \* conversion: the item ids fetched from Wikidata, in order
    cpc                \* conversion: "start", "rows", "done" or "raised"

vars == <<config, cutoff, output_format, wiki, idx, history_dump, pc, exception,
          packaged_results, outfile, requests,
          content, pos, rows, WIKIDATA_CACHE, wikidata, lookups, cpc>>

runVars == <<config, cutoff, output_format, wiki, idx, history_dump, pc, exception,
             packaged_results, outfile, requests>>

convVars == <<content, pos, rows, WIKIDATA_CACHE, wikidata, lookups, cpc>>

----------------------------------------------------------------------------
(* Bounds of the model. *)

MaxRevs == 3      \* revisions of one page
MaxDay == 2       \* days of the modelled period
DayLen == 2       \* ticks per day
MaxLen == 2       \* entries of a list read from a page or a document
MaxFiles == 2     \* files of one run

----------------------------------------------------------------------------
(* Generic helpers. *)

None == <<>>
Some(v) == <<v>>
IsNone(o) == o = <<>>
Truthy(o) == o # <<>> /\ o[1] # <<>>     \* Python "if x:" on an optional list/dict

SeqsUpTo(S, n) == UNION {[1..k -> S] : k \in 0..n}

Range(s) == {s[i] : i \in 1..Len(s)}

RECURSIVE Filter(_, _)
\* [x for x in s if Test(x)] for a membership test against the list t
Filter(s, t) ==
    IF s = <<>> THEN <<>>
    ELSE IF \E j \in 1..Len(t) : t[j] = Head(s)
         THEN Filter(Tail(s), t)
         ELSE <<Head(s)>> \o Filter(Tail(s), t)

RECURSIVE Lookup(_, _)
\* dict.get(key) on a dict given as pairs
Lookup(d, key) ==
    IF d = <<>> THEN None
    ELSE IF Head(d)[1] = key THEN Some(Head(d)[2])
    ELSE Lookup(Tail(d), key)

RECURSIVE lstrip(_)
lstrip(s) == IF s # <<>> /\ Head(s) = " " THEN lstrip(Tail(s)) ELSE s

RECURSIVE rstrip(_)
rstrip(s) ==
    IF s # <<>> /\ s[Len(s)] = " " THEN rstrip(SubSeq(s, 1, Len(s) - 1)) ELSE s

\* str.strip()
strip(s) == rstrip(lstrip(s))

Ok(v) == [exc |-> "", val |-> v]
Raise(e) == [exc |-> e, val |-> <<>>]

----------------------------------------------------------------------------
(* Assistant.create_pywikibot_timestamp: a date is parsed to its midnight. *)

create_pywikibot_timestamp(stringdate) == stringdate * DayLen

----------------------------------------------------------------------------
(* Baseline selection.  all_revisions is list(commons_page.revisions()),   *)
(* which pywikibot returns newest first.                                   *)

get_first_rev_not_by_uploader_bug(all_revisions) ==
    LET n == Len(all_revisions)
        uploader == all_revisions[n].userid
        \* the scan without reversed(): indexes 1 up to n-1
        others == {i \in 1..(n - 1) : all_revisions[i].userid # uploader}
    IN  IF others # {}
        THEN all_revisions[CHOOSE i \in others : \A j \in others : i <= j]
        ELSE all_revisions[1]

get_first_rev_not_by_uploader(all_revisions) ==
    LET n == Len(all_revisions)
        uploader == all_revisions[n].userid
        \* reversed(all_revisions[:-1]): indexes n-1 down to 1
        others == {i \in 1..(n - 1) : all_revisions[i].userid # uploader}
    IN  IF others # {}
        THEN all_revisions[CHOOSE i \in others : \A j \in others : j <= i]
        ELSE all_revisions[1]

RECURSIVE revs_before(_, _)
\* the loop of get_baseline_revision that fills revs_before_cutoff
revs_before(all_revisions, baseline_date) ==
    IF all_revisions = <<>> THEN <<>>
    ELSE IF Head(all_revisions).timestamp < baseline_date
         THEN <<Head(all_revisions)>> \o revs_before(Tail(all_revisions), baseline_date)
         ELSE revs_before(Tail(all_revisions), baseline_date)

get_baseline_revision_bug(all_revisions, cutoff_date) ==
    LET baseline_date == create_pywikibot_timestamp(cutoff_date)
        revs_before_cutoff == revs_before(all_revisions, baseline_date)
    IN  IF Len(revs_before_cutoff) = 0
        THEN get_first_rev_not_by_uploader(all_revisions)
        ELSE revs_before_cutoff[Len(revs_before_cutoff)]

get_baseline_revision(all_revisions, cutoff_date) ==
    LET baseline_date == create_pywikibot_timestamp(cutoff_date)
        revs_before_cutoff == revs_before(all_revisions, baseline_date)
    IN  IF Len(revs_before_cutoff) = 0
        THEN get_first_rev_not_by_uploader(all_revisions)
        ELSE revs_before_cutoff[1]

----------------------------------------------------------------------------
(* Wikitext.  A page text is modelled by what the two extractors read in   *)
(* it: its category links, each <<target name, sort key>>, and its         *)
(* templates, each [name, params] with params a list of [name, value].     *)

RECURSIVE get_categories(_)
\* re.findall of the category links, then cat.split("|")[0] on each
get_categories(page_text_categories) ==
    IF page_text_categories = <<>> THEN <<>>
    ELSE <<Head(page_text_categories)[1]>> \o get_categories(Tail(page_text_categories))

\* [x for x in template.params if str(x.name).strip() == field_name]
matching_params(template, field_name) ==
    SelectSeq(template.params, LAMBDA x : strip(x.name) = field_name)

RECURSIVE get_field_content(_, _, _)
\* returns None when no template of that name has the field
get_field_content(info_template, field_name, templates) ==
    IF templates = <<>> THEN None
    ELSE LET template == Head(templates)
             found == matching_params(template, field_name)
         IN  IF strip(template.name) = info_template /\ found # <<>>
             \* template.get(field_name) is the last parameter of that name
             THEN Some(strip(found[Len(found)].value))
             ELSE get_field_content(info_template, field_name, Tail(templates))

----------------------------------------------------------------------------
(* The per-facet deltas of CommonsFile.  Each takes what process_history   *)
(* has stored on the object and returns [exc, val].                        *)

\* the two comparison loops shared by categories, captions and statements
delta(current, baseline) ==
    [added |-> Filter(current, baseline), removed |-> Filter(baseline, current)]

process_categories(current_page_content, baseline_page_content) ==
    LET current_categories == get_categories(current_page_content.categories)
        baseline_categories == get_categories(baseline_page_content.categories)
    IN  Ok(delta(current_categories, baseline_categories))

process_descriptions_bug(cfg, current_page_content, baseline_page_content) ==
    LET info_template == cfg.info_template
    IN  IF IsNone(info_template) THEN Raise("AttributeError")
        ELSE IF info_template[1] = <<>> THEN Raise("IndexError")
        ELSE LET templ == info_template[1][1][1]
                 field == info_template[1][1][2]
                 current_description ==
                     get_field_content(templ, field, current_page_content.templates)
                 baseline_description ==
                     get_field_content(templ, field, baseline_page_content.templates)
             IN  Ok([old |-> baseline_description, new |-> current_description,
                     changed |-> (~IsNone(baseline_description)
                                  /\ ~IsNone(current_description)
                                  /\ baseline_description # current_description)])

process_descriptions(cfg, current_page_content, baseline_page_content) ==
    LET info_template == cfg.info_template            \* config.get("info_template")
    IN  IF IsNone(info_template) THEN Raise("AttributeError")      \* None.keys()
        ELSE IF info_template[1] = <<>> THEN Raise("IndexError")   \* list(...)[0]
        ELSE LET templ == info_template[1][1][1]
                 field == info_template[1][1][2]
                 current_description ==
                     get_field_content(templ, field, current_page_content.templates)
                 baseline_description ==
                     get_field_content(templ, field, baseline_page_content.templates)
             IN  Ok([old |-> baseline_description, new |-> current_description,
                     changed |-> (baseline_description # current_description)])

\* labels of a structured-data document (optional): sdc.get("labels")
doc_labels(doc) == IF IsNone(doc) THEN None ELSE doc[1].labels
\* sdc.get("statements")
doc_statements(doc) == IF IsNone(doc) THEN None ELSE doc[1].statements

\* [{key: labels.get(key).get('value')} for key in labels.keys()]
current_captions(labels) == IF Truthy(labels) THEN labels[1] ELSE <<>>

RECURSIVE old_captions_from(_, _)
\* the loop over old_sdc_labels.keys(): each value is read from the CURRENT
\* labels; labels.get(key) on None, or .get('value') on a missing key, raises
old_captions_from(old_keys, labels) ==
    IF old_keys = <<>> THEN Ok(<<>>)
    ELSE IF IsNone(labels) \/ IsNone(Lookup(labels[1], Head(old_keys)))
         THEN Raise("AttributeError")
         ELSE LET rest == old_captions_from(Tail(old_keys), labels)
              IN  IF rest.exc # "" THEN rest
                  ELSE Ok(<<<<Head(old_keys), Lookup(labels[1], Head(old_keys))[1]>>>>
                          \o rest.val)

Keys(d) == [i \in 1..Len(d) |-> d[i][1]]

process_captions(sdc, baseline_revision) ==
    LET labels == doc_labels(sdc)
        captions == current_captions(labels)
        old_mediainfo == baseline_revision.mediainfo
        old_sdc_labels == doc_labels(old_mediainfo)
        old_captions ==
            IF ~IsNone(old_mediainfo) /\ Truthy(old_sdc_labels)
            THEN old_captions_from(Keys(old_sdc_labels[1]), labels)
            ELSE Ok(<<>>)
    IN  IF old_captions.exc # "" THEN old_captions
        ELSE Ok(delta(captions, old_captions.val))

RECURSIVE statement_values(_, _)
\* for y in statements.get(x): y.get("mainsnak").get("datavalue").get("value").get("id")
statement_values(x, snaks) ==
    IF snaks = <<>> THEN Ok(<<>>)
    ELSE IF IsNone(Head(snaks)) THEN Raise("AttributeError")
    ELSE LET rest == statement_values(x, Tail(snaks))
         IN  IF rest.exc # "" THEN rest
             ELSE Ok(<<<<x, Head(snaks)[1]>>>> \o rest.val)

RECURSIVE relevant_statements(_, _)
\* for x in statements: if x in relevant_sdc: ...
relevant_statements(statements, relevant_sdc) ==
    IF statements = <<>> THEN Ok(<<>>)
    ELSE IF IsNone(relevant_sdc) THEN Raise("TypeError")      \* x in None
    ELSE LET x == Head(statements)[1]
             here == IF x \in Range(relevant_sdc[1])
                     THEN statement_values(x, Head(statements)[2])
                     ELSE Ok(<<>>)
         IN  IF here.exc # "" THEN here
             ELSE LET rest == relevant_statements(Tail(statements), relevant_sdc)
                  IN  IF rest.exc # "" THEN rest ELSE Ok(here.val \o rest.val)

process_statements(cfg, sdc, baseline_revision) ==
    LET relevant_sdc == cfg.relevant_sdc
        all_statements == doc_statements(sdc)
        current_statements ==
            IF Truthy(all_statements)
            THEN relevant_statements(all_statements[1], relevant_sdc)
            ELSE Ok(<<>>)
        old_mediainfo == baseline_revision.mediainfo
        old_sdc_statements == doc_statements(old_mediainfo)
        old_statements ==
            IF IsNone(old_mediainfo) THEN Ok(<<>>)
            ELSE IF IsNone(old_sdc_statements) THEN Raise("TypeError")  \* for x in None
            ELSE relevant_statements(old_sdc_statements[1], relevant_sdc)
    IN  IF current_statements.exc # "" THEN current_statements
        ELSE IF old_statements.exc # "" THEN old_statements
        ELSE Ok(delta(current_statements.val, old_statements.val))

----------------------------------------------------------------------------
(* CommonsFile.process_history on one input file.  page is the state of    *)
(* the wiki for that file name: [exists, revisions (newest first), sdc     *)
(* (the live structured-data entity, optional)].  A revision is [revid,    *)
(* userid, timestamp, text, mediainfo (the slot's document, optional)].    *)

\* get_creation_date: oldest_revision.timestamp.isoformat()
get_creation_date(page) == ToString(page.revisions[Len(page.revisions)].timestamp)

process_history(filename, page, cfg, cutoff_date) ==
    IF ~page.exists THEN Raise("NoPageError")         \* commons_page.revisions()
    ELSE
    LET baseline_revision == get_baseline_revision(page.revisions, cutoff_date)
        baseline_page_content == baseline_revision.text      \* getOldVersion(revid)
        current_page_content == page.revisions[1].text       \* commons_page.text
        sdc == page.sdc                                      \* get_sdc()
        categories == process_categories(current_page_content, baseline_page_content)
        description == process_descriptions(cfg, current_page_content,
                                            baseline_page_content)
        captions == process_captions(sdc, baseline_revision)
        statements == process_statements(cfg, sdc, baseline_revision)
    IN  IF categories.exc # "" THEN categories
        ELSE IF description.exc # "" THEN description
        ELSE IF captions.exc # "" THEN captions
        ELSE IF statements.exc # "" THEN statements
        ELSE Ok([filename |-> filename,
                 baseline_revision |-> ToString(baseline_revision.revid),
                 categories |-> categories.val,
                 description |-> description.val,
                 captions |-> captions.val,
                 statements |-> statements.val,
                 uploaded |-> get_creation_date(page)])

\* the requests process_history makes for the file before it returns or raises
requests_made(filename, page, cfg, cutoff_date) ==
    LET baseline_revision == get_baseline_revision(page.revisions, cutoff_date)
        description == process_descriptions(cfg, page.revisions[1].text,
                                            baseline_revision.text)
    IN  {<<filename, "revisions">>}
        \cup (IF page.exists
              THEN {<<filename, "getOldVersion">>, <<filename, "text">>,
                    <<filename, "wbgetentities">>}
                   \cup (IF description.exc = "" /\ ~IsNone(baseline_revision.mediainfo)
                         THEN {<<filename, "get_revision_content">>}   \* force=True
                         ELSE {})
              ELSE {})

----------------------------------------------------------------------------
(* Assistant.package_results.                                              *)

RECURSIVE array_to_string(_, _)
\* delimiter.join(array): the items with the delimiter between them
array_to_string(array, delimiter) ==
    IF array = <<>> THEN <<>>
    ELSE IF Len(array) = 1 THEN array
    ELSE <<Head(array), delimiter>> \o array_to_string(Tail(array), delimiter)

\* one row of the csv form; "\t".join raises on a None description
result_row(r, cutoff_date) ==
    IF IsNone(r.description.old) \/ IsNone(r.description.new)
    THEN Raise("TypeError")
    ELSE Ok(<<ToString(cutoff_date), ToString(r.filename), r.uploaded,
              r.baseline_revision,
              array_to_string(r.categories.removed, "|"),
              array_to_string(r.categories.added, "|"),
              r.description.old[1], r.description.new[1],
              r.statements.added, r.statements.removed>>)

RECURSIVE result_rows(_, _)
result_rows(results, cutoff_date) ==
    IF results = <<>> THEN Ok(<<>>)
    ELSE LET row == result_row(Head(results), cutoff_date)
         IN  IF row.exc # "" THEN row
             ELSE LET rest == result_rows(Tail(results), cutoff_date)
                  IN  IF rest.exc # "" THEN rest ELSE Ok(<<row.val>> \o rest.val)

\* the json form is a dict, the csv form the list of the header row and one row
\* per record; the generation timestamp of the metadata is the clock's and is
\* left out
package_results(cfg, results, cutoff_date, source, format) ==
    IF format = "json"
    THEN Ok([format |-> "json", config |-> cfg, results |-> results,
             meta |-> [cutoff |-> cutoff_date, source |-> source,
                       files |-> Len(results)]])
    ELSE LET rws == result_rows(results, cutoff_date)
         IN  IF rws.exc # "" THEN rws
             ELSE Ok([format |-> "csv", rows |-> <<"header">> \o rws.val])

----------------------------------------------------------------------------
(* main of commonsdiff.py, from its loop over the files on: the arguments  *)
(* are parsed, the format is one of the two main recognises and the        *)
(* configuration file is loaded.  The file names of the input list are the *)
(* positions 1..Len(wiki).                                                 *)

files == [i \in 1..Len(wiki) |-> i]

\* the loop body without its except clause
ProcessFile_bug ==
    /\ pc = "loop"
    /\ idx <= Len(files)
    /\ LET fname == files[idx]
           r == process_history(fname, wiki[idx], config, cutoff)
       IN  /\ requests' = requests \cup requests_made(fname, wiki[idx], config, cutoff)
           /\ IF r.exc # ""
              THEN /\ pc' = "raised"
                   /\ exception' = r.exc
                   /\ UNCHANGED <<idx, history_dump>>
              ELSE /\ history_dump' = Append(history_dump, r.val)
                   /\ idx' = idx + 1
                   /\ UNCHANGED <<pc, exception>>
    /\ UNCHANGED <<config, cutoff, output_format, wiki, packaged_results, outfile>>
    /\ UNCHANGED convVars

\* one iteration of "for fname in files": CommonsFile(...), process_history(),
\* the NoPageError handler, history_dump.append
ProcessFile ==
    /\ pc = "loop"
    /\ idx <= Len(files)
    /\ LET fname == files[idx]
           r == process_history(fname, wiki[idx], config, cutoff)
       IN  /\ requests' = requests \cup requests_made(fname, wiki[idx], config, cutoff)
           /\ IF r.exc = "NoPageError"
              THEN /\ idx' = idx + 1
                   /\ UNCHANGED <<history_dump, pc, exception>>
              ELSE IF r.exc # ""
              THEN /\ pc' = "raised"
                   /\ exception' = r.exc
                   /\ UNCHANGED <<idx, history_dump>>
              ELSE /\ history_dump' = Append(history_dump, r.val)
                   /\ idx' = idx + 1
                   /\ UNCHANGED <<pc, exception>>
    /\ UNCHANGED <<config, cutoff, output_format, wiki, packaged_results, outfile>>
    /\ UNCHANGED convVars

\* results = assistant.package_results(history_dump, cutoff, source, output_format)
PackageResults ==
    /\ pc = "loop"
    /\ idx > Len(files)
    /\ LET r == package_results(config, history_dump, cutoff, "inputlist", output_format)
       IN  IF r.exc # ""
           THEN /\ pc' = "raised"
                /\ exception' = r.exc
                /\ UNCHANGED packaged_results
           ELSE /\ pc' = "packaged"
                /\ packaged_results' = Some(r.val)
                /\ UNCHANGED exception
    /\ UNCHANGED <<config, cutoff, output_format, wiki, idx, history_dump, outfile,
                   requests>>
    /\ UNCHANGED convVars

\* assistant.results_to_file(results, filename, output_format)
ResultsToFile ==
    /\ pc = "packaged"
    /\ outfile' = packaged_results
    /\ pc' = "saved"
    /\ UNCHANGED <<config, cutoff, output_format, wiki, idx, history_dump, exception,
                   packaged_results, requests>>
    /\ UNCHANGED convVars

Next == ProcessFile \/ PackageResults \/ ResultsToFile

----------------------------------------------------------------------------
(* The inputs of the model: configurations, page texts, structured-data    *)
(* documents and pages.                                                    *)

TemplName == <<"I">>          \* the configured information template
FieldName == <<"d">>          \* the configured field
ValidConfig ==
    [info_template |-> Some(<< <<TemplName, FieldName>> >>),
     relevant_sdc |-> Some(<<"P180">>)]
\* a valid configuration, and the three ways a required part is missing
Configs ==
    {ValidConfig,
     [info_template |-> None, relevant_sdc |-> Some(<<"P180">>)],
     [info_template |-> Some(<<>>), relevant_sdc |-> Some(<<"P180">>)],
     [info_template |-> ValidConfig.info_template, relevant_sdc |-> None]}
IsValidConfig(cfg) ==
    /\ Truthy(cfg.info_template)
    /\ ~IsNone(cfg.relevant_sdc)

UserIds == {"A", "B"}
Instants == 0..(MaxDay * DayLen - 1)
CutoffDates == 0..MaxDay

EmptyText == [categories |-> <<>>, templates |-> <<>>]
EmptyDoc == [labels |-> Some(<<>>), statements |-> Some(<<>>)]

\* the revision lists of a page, newest first; revision ids grow with time
RevisionLists ==
    UNION {{[i \in 1..k |-> [revid |-> k - i + 1, userid |-> u[i], timestamp |-> t[i],
                             text |-> EmptyText, mediainfo |-> None]] :
              u \in [1..k -> UserIds],
              t \in {x \in [1..k -> Instants] : \A i \in 1..(k - 1) : x[i] >= x[i + 1]}} :
           k \in 1..MaxRevs}

NoPage == [exists |-> FALSE, revisions |-> <<>>, sdc |-> None]

\* a page uploaded by A before the cutoff date 1 and edited by B after it; the
\* live entity is the document of the newest revision
EditedPage(baseText, curText, baseDoc, liveDoc) ==
    [exists |-> TRUE,
     revisions |-> <<[revid |-> 2, userid |-> "B",
                      timestamp |-> create_pywikibot_timestamp(1),
                      text |-> curText, mediainfo |-> liveDoc],
                     [revid |-> 1, userid |-> "A", timestamp |-> 0,
                      text |-> baseText, mediainfo |-> baseDoc]>>,
     sdc |-> liveDoc]

CategoryLinks == {<<"Cats", "">>, <<"Cats", "k">>, <<"Dogs", "">>, <<"Birds", "">>}
CategoryLists == SeqsUpTo(CategoryLinks, MaxLen)

FieldValues == {<<>>, <<"a">>, <<"a", " ">>}
ParamLists ==
    {<<>>} \cup {<<[name |-> <<"d", " ">>, value |-> v]>> : v \in FieldValues}
Templates ==
    {[name |-> <<"I", " ">>, params |-> p] : p \in ParamLists}
    \cup {[name |-> <<"O">>, params |-> <<[name |-> <<"d">>, value |-> <<"b">>]>>]}
TemplateLists == SeqsUpTo(Templates, MaxLen)

Langs == {"sv", "en"}
CaptionTexts == {"x", "y"}
\* a labels dict has one entry per language
LabelDicts ==
    {d \in SeqsUpTo(Langs \X CaptionTexts, MaxLen) :
        \A i, j \in 1..Len(d) : i # j => d[i][1] # d[j][1]}
LabelDocs ==
    {[labels |-> l, statements |-> Some(<<>>)] :
        l \in {None} \cup {Some(d) : d \in LabelDicts}}

\* the main snak of a statement: the item id, or None when it has no datavalue
Snaks == {Some("Q1"), Some("Q2"), None}
SnakLists == SeqsUpTo(Snaks, MaxLen) \ {<<>>}
StatementDicts ==
    {p180 \o p170 :
        p180 \in {<<>>} \cup {<< <<"P180", l>> >> : l \in SnakLists},
        p170 \in {<<>>, << <<"P170", <<Some("Q1")>> >> >>, << <<"P170", <<None>> >> >>}}
StatementDocs ==
    {[labels |-> Some(<<>>), statements |-> st] :
        st \in {None} \cup {Some(d) : d \in StatementDicts}}

Optional(S) == {None} \cup {Some(x) : x \in S}

\* the pages of a whole run: one text and one document per outcome
FullText ==
    [categories |-> << <<"Cats", "">> >>,
     templates |-> <<[name |-> <<"I", " ">>,
                      params |-> <<[name |-> <<"d", " ">>, value |-> <<"a">>]>>]>>]
GoodDoc ==
    [labels |-> Some(<< <<"sv", "x">> >>),
     statements |-> Some(<< <<"P180", <<Some("Q1")>> >> >>)]
NoValueDoc ==
    [labels |-> Some(<< <<"sv", "x">> >>),
     statements |-> Some(<< <<"P180", <<Some("Q1"), None>> >> >>)]
BareDoc == [labels |-> None, statements |-> None]
RunPages ==
    {NoPage}
    \cup {EditedPage(FullText, ct, bd, ld) :
            ct \in {FullText, EmptyText},
            bd \in {None, Some(GoodDoc), Some(BareDoc)},
            ld \in {None, Some(GoodDoc), Some(NoValueDoc)}}

----------------------------------------------------------------------------
(* Specifications.                                                         *)

ConvIdle ==
    /\ content = <<>>
    /\ pos = 0
    /\ rows = <<>>
    /\ WIKIDATA_CACHE = <<>>
    /\ wikidata = <<>>
    /\ lookups = <<>>
    /\ cpc = "idle"

RunStart ==
    /\ idx = 1
    /\ history_dump = <<>>
    /\ pc = "loop"
    /\ exception = ""
    /\ packaged_results = None
    /\ outfile = None
    /\ requests = {}

\* whole runs: any list of files, any configuration, both output formats
Init ==
    /\ config \in Configs
    /\ cutoff = 1
    /\ output_format \in {"json", "csv"}
    /\ wiki \in SeqsUpTo(RunPages, MaxFiles)
    /\ RunStart
    /\ ConvIdle

Spec == Init /\ [][Next]_vars

\* main is sequential and each of its steps returns or raises
FairSpec == Init /\ [][Next]_vars /\ WF_vars(Next)

\* runs on one page with any revision history and any cutoff date
InitBaseline ==
    /\ config = ValidConfig
    /\ cutoff \in CutoffDates
    /\ output_format = "json"
    /\ wiki \in {<<[exists |-> TRUE, revisions |-> r, sdc |-> None]>> :
                   r \in RevisionLists}
    /\ RunStart
    /\ ConvIdle

SpecBaseline == InitBaseline /\ [][Next]_vars

\* runs on one edited page: any two category lists, any two template lists,
\* any two label sets or any two statement sets
DeltaPages ==
    {EditedPage([categories |-> b, templates |-> <<>>],
                [categories |-> c, templates |-> <<>>], None, None) :
        b \in CategoryLists, c \in CategoryLists}
    \cup {EditedPage([categories |-> <<>>, templates |-> b],
                     [categories |-> <<>>, templates |-> c], None, None) :
            b \in TemplateLists, c \in TemplateLists}
    \cup {EditedPage(EmptyText, EmptyText, b, c) :
            b \in Optional(LabelDocs), c \in Optional(LabelDocs)}
    \cup {EditedPage(EmptyText, EmptyText, b, c) :
            b \in Optional(StatementDocs), c \in Optional(StatementDocs)}

InitDelta ==
    /\ config = ValidConfig
    /\ cutoff = 1
    /\ output_format = "json"
    /\ wiki \in {<<p>> : p \in DeltaPages}
    /\ RunStart
    /\ ConvIdle

SpecDelta == InitDelta /\ [][Next]_vars

----------------------------------------------------------------------------
(* process_changes_nordic_museum.py.  The source JSON is the document      *)
(* commonsdiff.py saved: a description is an optional string (null when    *)
(* the field was absent), given here as the list of its pieces: "{{", "|", *)
(* "}}" and the text between them; a category name is the list of its      *)
(* leading words and its rest; a file name is the list of its parts        *)
(* between "-", each [nm (it starts with "NM"), stem, ext].                *)

\* WIKIDATA_CACHE.get(qid), used as a condition
cache_hit(cache, qid) == qid \in DOMAIN cache /\ cache[qid] # None

\* returns the label, the cache afterwards and whether the item was fetched
get_label_from_wd_item(cache, wd, qid, language_code, fallback_language_code) ==
    IF cache_hit(cache, qid)
    THEN [label |-> cache[qid], cache |-> cache, fetched |-> FALSE]
    ELSE LET item_dict == wd[qid]                          \* item.get()
             first == item_dict[language_code]
             item_label == IF IsNone(first) THEN item_dict[fallback_language_code]
                           ELSE first
         IN  [label |-> item_label, cache |-> (qid :> item_label) @@ cache,
              fetched |-> TRUE]

get_inventory_number_from_filename(filename) ==
    LET last == filename[Len(filename)]                    \* filename.split("-")[-1]
    IN  IF last.nm THEN last.stem ELSE "???"

RECURSIVE after_last_pipe(_)
\* content.split("|")[-1]
after_last_pipe(s) ==
    IF \E i \in 1..Len(s) : s[i] = "|"
    THEN after_last_pipe(SubSeq(s, (CHOOSE i \in 1..Len(s) : s[i] = "|"
                                       /\ \A j \in 1..(i - 1) : s[j] # "|") + 1, Len(s)))
    ELSE s

\* raises on None (content.startswith)
clean_description(desc) ==
    IF IsNone(desc) THEN Raise("AttributeError")
    ELSE LET c == desc[1]
         IN  IF c # <<>> /\ Head(c) = "{{" /\ "|" \in Range(c)
             THEN Ok(SelectSeq(after_last_pipe(c), LAMBDA x : x \notin {"{{", "}}"}))
             ELSE Ok(c)

Row(invno, filename, column, value, label) ==
    [invno |-> invno, filename |-> filename, column |-> column, value |-> value,
     label |-> label]

RECURSIVE category_rows(_, _, _)
\* the loop over added_categories; project categories are left out
category_rows(invno, filename, added_categories) ==
    IF added_categories = <<>> THEN <<>>
    ELSE LET added_category == Head(added_categories)
             rest == category_rows(invno, filename, Tail(added_categories))
         IN  IF Head(added_category) # "100 000 Bildminnen"     \* not startswith
             THEN <<Row(invno, filename, "added_category", added_category, None)>>
                  \o rest
             ELSE rest

RECURSIVE depicts_rows(_, _, _, _, _, _)
\* the loop over added_sdc; returns the rows, the cache and the fetches made
depicts_rows(invno, filename, added_sdc, cache, wd, fetches) ==
    IF added_sdc = <<>> THEN [rows |-> <<>>, cache |-> cache, fetches |-> fetches]
    ELSE LET sdc == Head(added_sdc)
         IN  IF sdc[1] = "P180"
             THEN LET got == get_label_from_wd_item(cache, wd, sdc[2], "sv", "en")
                      rest == depicts_rows(invno, filename, Tail(added_sdc), got.cache,
                                           wd, IF got.fetched
                                               THEN Append(fetches, sdc[2])
                                               ELSE fetches)
                  IN  [rest EXCEPT !.rows =
                         <<Row(invno, filename, "added_depicts_q", sdc[2], got.label)>>
                         \o rest.rows]
             ELSE depicts_rows(invno, filename, Tail(added_sdc), cache, wd, fetches)

RECURSIVE caption_rows(_, _, _)
\* the loop over added_captions: caption.get("sv") is None for another language
caption_rows(invno, filename, added_captions) ==
    IF added_captions = <<>> THEN <<>>
    ELSE LET caption == Head(added_captions)
             caption_meat == IF caption[1] = "sv" THEN Some(caption[2]) ELSE None
         IN  <<Row(invno, filename, "added_caption_sv", caption_meat, None)>>
             \o caption_rows(invno, filename, Tail(added_captions))

\* the body of "for x in meat_content" of convert_to_nordic_museum
convert_record(x, cache, wd, fetches) ==
    LET filename == x.filename
        nordic_id == get_inventory_number_from_filename(filename)
        description == x.description
        updated_description ==
            IF description.changed THEN clean_description(description.new)
            ELSE Ok(<<>>)
        depicts == depicts_rows(nordic_id, filename, x.statements.added, cache, wd,
                                fetches)
    IN  IF updated_description.exc # ""
        THEN [exc |-> updated_description.exc, rows |-> <<>>, cache |-> cache,
              fetches |-> fetches]
        ELSE [exc |-> "",
              rows |-> category_rows(nordic_id, filename, x.categories.added)
                       \o depicts.rows
                       \o caption_rows(nordic_id, filename, x.captions.added)
                       \o (IF updated_description.val # <<>>      \* if updated_description:
                           THEN <<Row(nordic_id, filename, "updated_description_sv",
                                      updated_description.val, None)>>
                           ELSE <<>>),
              cache |-> depicts.cache,
              fetches |-> depicts.fetches]

\* the header row is written to a fresh file
WriteHeader ==
    /\ cpc = "start"
    /\ rows' = <<>>
    /\ pos' = 1
    /\ cpc' = "rows"
    /\ UNCHANGED <<content, WIKIDATA_CACHE, wikidata, lookups>>
    /\ UNCHANGED runVars

ConvertRecord ==
    /\ cpc = "rows"
    /\ pos <= Len(content)
    /\ LET r == convert_record(content[pos], WIKIDATA_CACHE, wikidata, lookups)
       IN  IF r.exc # ""
           THEN /\ cpc' = "raised"
                /\ UNCHANGED <<pos, rows, WIKIDATA_CACHE, lookups>>
           ELSE /\ rows' = rows \o r.rows
                /\ WIKIDATA_CACHE' = r.cache
                /\ lookups' = r.fetches
                /\ pos' = pos + 1
                /\ UNCHANGED cpc
    /\ UNCHANGED <<content, wikidata>>
    /\ UNCHANGED runVars

\* print("Saved ...")
EndConversion ==
    /\ cpc = "rows"
    /\ pos > Len(content)
    /\ cpc' = "done"
    /\ UNCHANGED <<content, pos, rows, WIKIDATA_CACHE, wikidata, lookups>>
    /\ UNCHANGED runVars

NextConvert == WriteHeader \/ ConvertRecord \/ EndConversion

Qids == {"Q1", "Q2"}
\* the labels of the items: Q1 in any state, Q2 labelled in Swedish
Worlds ==
    {[q \in Qids |-> IF q = "Q1" THEN l ELSE [sv |-> Some("tva"), en |-> None]] :
        l \in {[sv |-> Some("ett"), en |-> Some("one")],
               [sv |-> None, en |-> Some("one")],
               [sv |-> None, en |-> None]}}

ConvFilenames ==
    {<<[nm |-> FALSE, stem |-> "Damskor", ext |-> ""],
       [nm |-> TRUE, stem |-> "NMAx.0030805", ext |-> "tif"]>>,
     <<[nm |-> FALSE, stem |-> "Damskor", ext |-> "tif"]>>}
ConvCategories ==
    {<<>>, << <<"Cats">> >>, << <<"100 000 Bildminnen", "2">> >>,
     << <<"100 000 Bildminnen", "2">>, <<"Cats">> >>}
ConvStatements ==
    {<<>>, << <<"P180", "Q1">> >>, << <<"P170", "Q1">> >>,
     << <<"P180", "Q1">>, <<"P180", "Q2">>, <<"P180", "Q1">> >>}
ConvCaptions == {<<>>, << <<"sv", "x">> >>, << <<"en", "y">>, <<"sv", "x">> >>}
ConvDescriptions ==
    {[old |-> Some(<<"a">>), new |-> Some(<<"a">>), changed |-> FALSE],
     [old |-> Some(<<"a">>), new |-> Some(<<"b">>), changed |-> TRUE],
     [old |-> Some(<<"a">>), new |-> Some(<<"{{", "sv", "|", "b", "}}">>),
      changed |-> TRUE],
     [old |-> Some(<<"a">>), new |-> Some(<<>>), changed |-> TRUE],
     [old |-> Some(<<"a">>), new |-> None, changed |-> TRUE]}
ConvRecord(f, c, s, k, d) ==
    [filename |-> f, categories |-> [added |-> c, removed |-> <<>>],
     statements |-> [added |-> s, removed |-> <<>>],
     captions |-> [added |-> k, removed |-> <<>>], description |-> d]
Unchanged == [old |-> Some(<<"a">>), new |-> Some(<<"a">>), changed |-> FALSE]
\* records with changes of one kind each, and one with changes of every kind
ConvRecords ==
    {ConvRecord(f, <<>>, <<>>, <<>>, Unchanged) : f \in ConvFilenames}
    \cup {ConvRecord(<<[nm |-> TRUE, stem |-> "NMAx.0030805", ext |-> "tif"]>>,
                     c, <<>>, <<>>, Unchanged) : c \in ConvCategories}
    \cup {ConvRecord(<<[nm |-> TRUE, stem |-> "NMAx.0030805", ext |-> "tif"]>>,
                     <<>>, s, <<>>, Unchanged) : s \in ConvStatements}
    \cup {ConvRecord(<<[nm |-> TRUE, stem |-> "NMAx.0030805", ext |-> "tif"]>>,
                     <<>>, <<>>, k, Unchanged) : k \in ConvCaptions}
    \cup {ConvRecord(<<[nm |-> TRUE, stem |-> "NMAx.0030805", ext |-> "tif"]>>,
                     <<>>, <<>>, <<>>, d) : d \in ConvDescriptions}
    \cup {ConvRecord(<<[nm |-> TRUE, stem |-> "NMAx.0030805", ext |-> "tif"]>>,
                     << <<"Cats">> >>, << <<"P180", "Q1">> >>, << <<"sv", "x">> >>,
                     [old |-> Some(<<"a">>), new |-> Some(<<"b">>), changed |-> TRUE])}

RunIdle ==
    /\ config = ValidConfig
    /\ cutoff = 1
    /\ output_format = "json"
    /\ wiki = <<>>
    /\ idx = 0
    /\ history_dump = <<>>
    /\ pc = "idle"
    /\ exception = ""
    /\ packaged_results = None
    /\ outfile = None
    /\ requests = {}

\* conversions of any source document, against any state of Wikidata, with
\* the cache empty as at the start of the process
InitConvert ==
    /\ content \in SeqsUpTo(ConvRecords, MaxFiles)
    /\ wikidata \in Worlds
    /\ pos = 0
    /\ rows = <<>>
    /\ WIKIDATA_CACHE = <<>>
    /\ lookups = <<>>
    /\ cpc = "start"
    /\ RunIdle

SpecConvert == InitConvert /\ [][NextConvert]_vars

----------------------------------------------------------------------------
(* Properties.  A record of history_dump belongs to the input file whose   *)
(* position is its filename.                                               *)

PageOf(rec) == wiki[rec.filename]
Records == {history_dump[k] : k \in 1..Len(history_dump)}
\* the positions of the revisions of a page before the cutoff
Before(page) ==
    {i \in 1..Len(page.revisions) :
        page.revisions[i].timestamp < create_pywikibot_timestamp(cutoff)}
\* the position of the baseline revision of a record in its page's list
BaselineAt(rec, i) == ToString(PageOf(rec).revisions[i].revid) = rec.baseline_revision

NotByUploader(page) ==
    {i \in 1..Len(page.revisions) :
        page.revisions[i].userid # page.revisions[Len(page.revisions)].userid}

\* C2 as stated: when no revision is before the cutoff, the baseline is the
\* earliest revision not by the uploader, or the OLDEST revision when every
\* revision is by the uploader.
C2_OldestWhenOnlyUploader ==
    \A rec \in Records :
        LET page == PageOf(rec)
            n == Len(page.revisions)
        IN  Before(page) = {} =>
                IF NotByUploader(page) # {}
                THEN \E i \in NotByUploader(page) :
                        BaselineAt(rec, i) /\ \A j \in NotByUploader(page) : j <= i
                ELSE BaselineAt(rec, n)

\* C2 amended: when no revision is before the cutoff, the baseline is the
\* earliest revision not by the uploader, or the NEWEST revision when every
\* revision is by the uploader (the only revision of a page that has one).
C2_NewestWhenOnlyUploader ==
    \A rec \in Records :
        LET page == PageOf(rec)
        IN  Before(page) = {} =>
                IF NotByUploader(page) # {}
                THEN \E i \in NotByUploader(page) :
                        BaselineAt(rec, i) /\ \A j \in NotByUploader(page) : j <= i
                ELSE BaselineAt(rec, 1)

\* a page uploaded after the cutoff: three revisions, all by the uploader,
\* and the baseline is the newest one
C2_Witness ==
    \E rec \in Records :
        /\ Len(PageOf(rec).revisions) = 3
        /\ Before(PageOf(rec)) = {}
        /\ NotByUploader(PageOf(rec)) = {}
        /\ BaselineAt(rec, 1)
        /\ ~BaselineAt(rec, 3)

----------------------------------------------------------------------------
(* The deltas.  The baseline of an edited page is its oldest revision and  *)
(* the current state is its newest revision and the live entity.           *)

BaselineRev(rec) ==
    LET revs == PageOf(rec).revisions
    IN  revs[CHOOSE i \in 1..Len(revs) : BaselineAt(rec, i)]

\* the (language, text) pairs stored in a document (none when it is absent
\* or has no labels)
CaptionPairs(doc) == IF Truthy(doc_labels(doc)) THEN Range(doc_labels(doc)[1]) ELSE {}

\* the allow-listed (property, item) pairs stored in a document
StatementPairs(doc) ==
    IF Truthy(doc_statements(doc))
    THEN UNION {{<<st[1], sn[1]>> : sn \in {x \in Range(st[2]) : ~IsNone(x)}} :
                  st \in {x \in Range(doc_statements(doc)[1]) :
                             x[1] \in Range(config.relevant_sdc[1])}}
    ELSE {}

\* added and removed are the two-way set difference of A (baseline) and B
SetDelta(d, A, B) ==
    LET added == Range(d.added)
        removed == Range(d.removed)
    IN  /\ added \cap removed = {}
        /\ added \subseteq B \ A
        /\ removed \subseteq A \ B
        /\ (A \ removed) \cup added = B

CategoriesSetDelta(rec) ==
    SetDelta(rec.categories,
             Range(get_categories(BaselineRev(rec).text.categories)),
             Range(get_categories(PageOf(rec).revisions[1].text.categories)))

StatementsSetDelta(rec) ==
    SetDelta(rec.statements,
             StatementPairs(BaselineRev(rec).mediainfo),
             StatementPairs(PageOf(rec).sdc))

CaptionsSetDelta(rec) ==
    SetDelta(rec.captions,
             CaptionPairs(BaselineRev(rec).mediainfo),
             CaptionPairs(PageOf(rec).sdc))

\* C3: for the categories, the captions and the statements of every record,
\* added and removed are disjoint, added is within B \ A, removed is within
\* A \ B, and (A \ removed) with added is B, A being the baseline list and B
\* the current one.
C3_DeltasAreSetDifferences ==
    \A rec \in Records :
        CategoriesSetDelta(rec) /\ StatementsSetDelta(rec) /\ CaptionsSetDelta(rec)

\* the part of C3 that the code satisfies: categories and statements
C3_CategoriesAndStatements ==
    \A rec \in Records : CategoriesSetDelta(rec) /\ StatementsSetDelta(rec)

\* C4: a language captioned in both documents with different texts has its
\* baseline pair in removed and its current pair in added; a language
\* captioned only in the baseline document has its pair in removed.
C4_CaptionDeltaUsesBaselineText ==
    \A rec \in Records :
        LET A == CaptionPairs(BaselineRev(rec).mediainfo)
            B == CaptionPairs(PageOf(rec).sdc)
        IN  \A a \in A :
                /\ \A b \in B :
                       (a[1] = b[1] /\ a[2] # b[2]) =>
                           /\ a \in Range(rec.captions.removed)
                           /\ b \in Range(rec.captions.added)
                /\ (\A b \in B : b[1] # a[1]) => a \in Range(rec.captions.removed)

\* the value of the configured field in a list of templates, read off the
\* list: the first template of the configured name that has the field
FieldOf(templates) ==
    LET has(i) ==
            /\ strip(templates[i].name) = TemplName
            /\ \E k \in 1..Len(templates[i].params) :
                   strip(templates[i].params[k].name) = FieldName
        hits == {i \in 1..Len(templates) : has(i)}
    IN  IF hits = {} THEN None
        ELSE LET t == templates[CHOOSE i \in hits : \A j \in hits : i <= j]
                 last == CHOOSE k \in 1..Len(t.params) :
                            /\ strip(t.params[k].name) = FieldName
                            /\ \A m \in (k + 1)..Len(t.params) :
                                   strip(t.params[m].name) # FieldName
             IN  Some(strip(t.params[last].value))

\* C5: changed is true exactly when the field value of the baseline text and
\* that of the current text differ, no value differing from every string; a
\* field present in the baseline with no such template in the current text
\* gives changed, old = the baseline text and new = no value.
C5_DescriptionChanged ==
    \A rec \in Records :
        LET old == FieldOf(BaselineRev(rec).text.templates)
            new == FieldOf(PageOf(rec).revisions[1].text.templates)
            absent == \A i \in 1..Len(PageOf(rec).revisions[1].text.templates) :
                         strip(PageOf(rec).revisions[1].text.templates[i].name)
                             # TemplName
        IN  /\ rec.description.changed <=> (old # new)
            /\ (IsNone(old) /\ ~IsNone(new)) => rec.description.changed
            /\ (~IsNone(old) /\ absent) =>
                   /\ rec.description.changed
                   /\ rec.description.old = old
                   /\ IsNone(rec.description.new)

\* the field is in the baseline text, the current text has no template
C5_Witness ==
    \E rec \in Records :
        /\ BaselineRev(rec).text.templates # <<>>
        /\ PageOf(rec).revisions[1].text.templates = <<>>
        /\ rec.description = [old |-> Some(<<"a">>), new |-> None, changed |-> TRUE]

----------------------------------------------------------------------------
(* Whole runs.                                                             *)

\* the input files up to position n that have a page, in input order
ExistingUpTo(n) == SelectSeq([i \in 1..n |-> i], LAMBDA i : wiki[i].exists)

\* C6: a file without a page is skipped and the run goes on: a missing page
\* never ends the run, the records collected are those of the files with a
\* page among the files gone through, in input order, and what is packaged
\* after the last file holds these records and counts them.
C6_MissingPagesSkipped ==
    /\ exception # "NoPageError"
    /\ [k \in 1..Len(history_dump) |-> history_dump[k].filename] = ExistingUpTo(idx - 1)
    /\ ~IsNone(packaged_results) =>
           /\ idx = Len(wiki) + 1
           /\ IF output_format = "json"
              THEN /\ packaged_results[1].results = history_dump
                   /\ packaged_results[1].meta.files = Len(packaged_results[1].results)
                   /\ packaged_results[1].meta.files = Len(ExistingUpTo(Len(wiki)))
              ELSE Len(packaged_results[1].rows) = Len(ExistingUpTo(Len(wiki))) + 1

\* a file without a page, then a file with one: one record, saved
C6_Witness ==
    /\ pc = "saved"
    /\ Len(wiki) = 2
    /\ ~wiki[1].exists
    /\ wiki[2].exists
    /\ ~IsNone(outfile)
    /\ outfile[1].format = "json"
    /\ Len(outfile[1].results) = 1
    /\ outfile[1].results[1].filename = 2
    /\ outfile[1].meta.files = 1

\* C7: with a valid configuration, no file ends the run, whatever its
\* structured-data documents hold or lack: every file gone through either
\* has no page or has its record.
C7_DocumentsNeverAbort ==
    IsValidConfig(config) => ~(pc = "raised" /\ idx <= Len(wiki))

\* C8: a run with a valid configuration eventually saves its output file.
C8_OutputEventuallySaved ==
    (IsValidConfig(config) /\ pc = "loop") ~> (pc = "saved")

\* C9: with a configuration that lacks a required part, no request is made
\* for any file and no output file is written.
C9_InvalidConfigStopsBeforeFiles ==
    ~IsValidConfig(config) => (requests = {} /\ IsNone(outfile))

----------------------------------------------------------------------------
(* The conversion.                                                         *)

\* the rows C10 expects of one record
ExpectedRowCount(x) ==
    Len(x.categories.added) + Len(x.statements.added) + Len(x.captions.added)
    + (IF x.description.changed THEN 1 ELSE 0)

RECURSIVE ExpectedRowsUpTo(_)
ExpectedRowsUpTo(n) ==
    IF n = 0 THEN 0 ELSE ExpectedRowsUpTo(n - 1) + ExpectedRowCount(content[n])

\* C10: no record aborts the conversion, and the records converted so far
\* have given one row per added category, added statement and added caption,
\* and one more row exactly for those whose description changed.
C10_OneRowPerChange ==
    /\ cpc # "raised"
    /\ cpc \in {"rows", "done"} => Len(rows) = ExpectedRowsUpTo(pos - 1)

----------------------------------------------------------------------------
(* The order of the fallback scan.                                         *)

\* the revision ids of the revisions of a page not by its uploader
RevidsNotByUploader(page) == {page.revisions[i].revid : i \in NotByUploader(page)}
\* the revision id a record names as its baseline
BaselineRevid(rec) ==
    CHOOSE r \in {PageOf(rec).revisions[i].revid : i \in 1..Len(PageOf(rec).revisions)} :
        ToString(r) = rec.baseline_revision

\* C11 as stated: when no revision is before the cutoff and some revision is
\* not by the uploader, the scan goes from newest to oldest, so the baseline
\* is the NEWEST of the revisions not by the uploader.
C11_NewestNotByUploader ==
    \A rec \in Records :
        (Before(PageOf(rec)) = {} /\ NotByUploader(PageOf(rec)) # {}) =>
            /\ BaselineRevid(rec) \in RevidsNotByUploader(PageOf(rec))
            /\ \A r \in RevidsNotByUploader(PageOf(rec)) : r <= BaselineRevid(rec)

\* C11 amended: when no revision is before the cutoff and some revision is
\* not by the uploader, the scan goes from oldest to newest, leaving out the
\* oldest revision, so the baseline is the OLDEST of the revisions not by the
\* uploader: every revision older than the baseline is by the uploader.
C11_OldestNotByUploader ==
    \A rec \in Records :
        (Before(PageOf(rec)) = {} /\ NotByUploader(PageOf(rec)) # {}) =>
            /\ BaselineRevid(rec) \in RevidsNotByUploader(PageOf(rec))
            /\ \A r \in RevidsNotByUploader(PageOf(rec)) : BaselineRevid(rec) <= r
            /\ BaselineRevid(rec) # 1

\* a page uploaded after the cutoff with two later revisions not by the
\* uploader: the baseline is the older of the two
C11_Witness ==
    \E rec \in Records :
        /\ Len(PageOf(rec).revisions) = 3
        /\ Before(PageOf(rec)) = {}
        /\ NotByUploader(PageOf(rec)) = {1, 2}
        /\ BaselineRevid(rec) = 2

----------------------------------------------------------------------------
(* The label cache of the conversion.                                      *)

\* C12: no item id is fetched from Wikidata twice in one conversion, and the
\* rows of one item id carry one label, whatever labels the item has.
C12_OneFetchPerItem ==
    /\ \A i, j \in 1..Len(lookups) : i # j => lookups[i] # lookups[j]
    /\ \A i, j \in 1..Len(rows) :
           (rows[i].column = "added_depicts_q" /\ rows[j].column = "added_depicts_q"
            /\ rows[i].value = rows[j].value) => rows[i].label = rows[j].label

\* the part of C12 that the code satisfies: an item that has a label in the
\* requested or the fallback language is fetched once
C12_OneFetchPerLabelledItem ==
    /\ \A i, j \in 1..Len(lookups) :
           (i # j /\ lookups[i] = lookups[j]) =>
               (IsNone(wikidata[lookups[i]]["sv"]) /\ IsNone(wikidata[lookups[i]]["en"]))
    /\ \A q \in DOMAIN WIKIDATA_CACHE : q \in Range(lookups)

====
